---- MODULE Spec2Model ----
(***************************************************************************)
(* Model of the simulation kernel QuadSwingUp                              *)
(* (gym-foo/gym_foo/envs/foo_env.py): construction, reset, step.           *)
(*                                                                         *)
(* Numbers.  The code computes in float64.  The model computes in decimal  *)
(* fixed point with four fractional digits: the integer v stands for the   *)
(* real v / SCALE, every product and quotient is rounded to the nearest    *)
(* unit, and sin / cos are evaluated by their Taylor polynomials.  The     *)
(* arithmetic keeps the order of operations of the source.  Rewards are    *)
(* the integers 0 and 1 (0.0 and 1.0 in the code).                         *)
(*                                                                         *)
(* Optional values.  self.state = None is the empty tuple None_state,      *)
(* self.steps_beyond_done = None is the sentinel None_sbd (-1).            *)
(***************************************************************************)
EXTENDS Integers, Sequences, FiniteSets, TLC

VARIABLES state, steps_beyond_done, kinematics_integrator, ret, t, hist

vars == <<state, steps_beyond_done, kinematics_integrator, ret, t, hist>>

---------------------------------------------------------------------------
(* Bounds of the model *)

\* successful step calls explored per episode
MaxSteps == 16

---------------------------------------------------------------------------
(* Fixed-point arithmetic *)

SCALE == 10000

Abs(v) == IF v < 0 THEN -v ELSE v

\* a / b rounded to the nearest integer (b > 0)
RDiv(a, b) == (a + (b \div 2)) \div b

\* product and quotient of two fixed-point numbers
Mul(a, b) == RDiv(a * b, SCALE)

Div(a, b) == RDiv(a * SCALE, b)

\* v ** 2, split so that the intermediate product stays within 32 bits
Sq(v) ==
  LET a  == Abs(v)
      hi == a \div 100
      lo == a % 100
  IN  hi * hi + RDiv(2 * hi * lo * 100 + lo * lo, SCALE)

\* math.sin and math.cos
sin(th) ==
  LET t2 == Sq(th)
      t3 == Mul(t2, th)
      t5 == Mul(t3, t2)
      t7 == Mul(t5, t2)
  IN  th - RDiv(t3, 6) + RDiv(t5, 120) - RDiv(t7, 5040)

cos(th) ==
  LET t2 == Sq(th)
      t4 == Sq(t2)
      t6 == Mul(t4, t2)
  IN  SCALE - RDiv(t2, 2) + RDiv(t4, 24) - RDiv(t6, 720)

---------------------------------------------------------------------------
(* Parameter set, __init__ *)

gravity == 98000

masscart == 10000

masspole1 == 1000

masspole2 == 1000

masspole3 == 1000

masspole4 == 1000

masspole == masspole1 + masspole2 + masspole3 + masspole4

total_mass == masspole + masscart

length == 5000

polemass_length == Mul(masspole, length)

force_mag == 100000

tau == 200

\* math.pi
pi == 31416

theta_threshold_radians == RDiv(12 * 2 * pi, 360)

x_threshold == 24000

\* spaces.Discrete(2)
action_space == 2

\* size=(10,) of the reset draw
state_size == 10

\* low and high of the reset draw
reset_low == -500

reset_high == 500

None_state == << >>

None_sbd == -1

---------------------------------------------------------------------------
(* step: precondition, dynamics, integrator, episode policy *)

\* self.action_space.contains(action) of spaces.Discrete(2)
containsNonNegative(action) == action >= 0

contains(action) == action >= 0 /\ action < action_space

\* the ten-way unpacking of self.state; None_state when it raises
unpackOrZeros(s) == IF Len(s) = state_size THEN s ELSE [i \in 1..state_size |-> 0]

unpack(s) == IF Len(s) = state_size THEN s ELSE None_state

force(action) == IF action = 1 THEN force_mag ELSE -force_mag

\* temp, thetaacc and xacc of the equations of motion
temp(frc, theta1_dot, sintheta) ==
  Div(frc + Mul(Mul(polemass_length, Sq(theta1_dot)), sintheta), total_mass)

thetaacc(sintheta, costheta, tmp) ==
  Div(Mul(gravity, sintheta) - Mul(costheta, tmp),
      Mul(length, RDiv(4 * SCALE, 3) - Div(Mul(masspole, Sq(costheta)), total_mass)))

xacc(tmp, ta, costheta) ==
  tmp - Div(Mul(Mul(polemass_length, ta), costheta), total_mass)

\* the "euler" branch: positions from the old velocities, then velocities
eulerFirstLinkOnly(s, xa, ta) ==
  << s[1] + Mul(tau, s[2]),  s[2] + Mul(tau, xa),
     s[3] + Mul(tau, s[4]),  s[4] + Mul(tau, ta),
     s[5] + Mul(tau, s[6]),  s[6],
     s[7] + Mul(tau, s[8]),  s[8],
     s[9] + Mul(tau, s[10]), s[10] >>

euler(s, xa, ta) ==
  << s[1] + Mul(tau, s[2]),  s[2] + Mul(tau, xa),
     s[3] + Mul(tau, s[4]),  s[4] + Mul(tau, ta),
     s[5] + Mul(tau, s[6]),  s[6] + Mul(tau, ta),
     s[7] + Mul(tau, s[8]),  s[8] + Mul(tau, ta),
     s[9] + Mul(tau, s[10]), s[10] + Mul(tau, ta) >>

\* done = bool(x < -x_threshold or ... or theta1 > theta_threshold_radians)
doneSecondLink(s) ==
  \/ s[1] < -x_threshold
  \/ s[1] > x_threshold
  \/ s[5] < -theta_threshold_radians
  \/ s[5] > theta_threshold_radians

done(s) ==
  \/ s[1] < -x_threshold
  \/ s[1] > x_threshold
  \/ s[3] < -theta_threshold_radians
  \/ s[3] > theta_threshold_radians

\* the reward of the three branches of the episode policy
rewardWhileRunning(d, sbd) == IF d THEN 0 ELSE 1

reward(d, sbd) ==
  IF ~d THEN 1
  ELSE IF sbd = None_sbd THEN 1
  ELSE 0

\* self.steps_beyond_done after the episode policy
beyondFromOne(d, sbd) ==
  IF ~d THEN sbd
  ELSE IF sbd = None_sbd THEN 1
  ELSE sbd + 1

beyondForgets(d, sbd) ==
  IF ~d THEN None_sbd
  ELSE IF sbd = None_sbd THEN 0
  ELSE sbd + 1

beyond(d, sbd) ==
  IF ~d THEN sbd
  ELSE IF sbd = None_sbd THEN 0
  ELSE sbd + 1

\* whether the print of the last branch runs
warnsEveryTime(d, sbd) == d /\ sbd # None_sbd

warns(d, sbd) == d /\ sbd # None_sbd /\ sbd = 0

---------------------------------------------------------------------------
(* Results of a call, and the history the properties refer to *)

Returned(op, action, rew, d, notice) ==
  [op |-> op, action |-> action, ok |-> TRUE, error |-> "",
   reward |-> rew, done |-> d, notice |-> notice]

Raised(action, error) ==
  [op |-> "step", action |-> action, ok |-> FALSE, error |-> error,
   reward |-> 0, done |-> FALSE, notice |-> FALSE]

\* dones: steps of the episode that returned done = true
\* post: steps of the episode that returned after the first done = true
\* notices: notices printed during the episode
\* from: steps_beyond_done before the reset that was the last call
NoHist == [dones |-> 0, post |-> 0, notices |-> 0, from |-> None_sbd]

---------------------------------------------------------------------------
(* Inputs *)

\* the action symbols a caller passes: the two valid ones and two invalid ones
Actions == {-1, 0, 1, 2}

\* the integrator modes a caller configures
Modes == {"euler", "standard"}

\* draws of np_random.uniform(low=-0.05, high=0.05, size=(10,))
ResetDraws ==
  { << 0, 0, reset_high, reset_high, reset_low, reset_high,
       reset_high, reset_low, 0, 0 >>,
    << reset_high, reset_low, reset_low, reset_low, reset_high, 0,
       reset_low, reset_high, 0, reset_high >> }

---------------------------------------------------------------------------
(* The state machine *)

\* __init__
Init ==
  /\ state = None_state
  /\ steps_beyond_done = None_sbd
  /\ kinematics_integrator = "euler"
  /\ ret = Returned("init", 0, 0, FALSE, FALSE)
  /\ t = 0
  /\ hist = NoHist

\* the caller sets the public attribute kinematics_integrator of a fresh
\* instance (the code itself only assigns it in __init__)
configure(mode) ==
  /\ state = None_state
  /\ kinematics_integrator' = mode
  /\ ret' = Returned("configure", 0, 0, FALSE, FALSE)
  /\ UNCHANGED <<state, steps_beyond_done, t, hist>>

\* self.steps_beyond_done = None
clearedNever(sbd) == sbd

cleared(sbd) == None_sbd

reset ==
  /\ \E draw \in ResetDraws : state' = draw
  /\ steps_beyond_done' = cleared(steps_beyond_done)
  /\ ret' = Returned("reset", 0, 0, FALSE, FALSE)
  /\ t' = 0
  /\ hist' = [NoHist EXCEPT !.from = steps_beyond_done]
  /\ UNCHANGED kinematics_integrator

\* a call of step that raises: nothing of the instance is assigned
raise(action, error) ==
  /\ ret' = Raised(action, error)
  /\ UNCHANGED <<state, steps_beyond_done, kinematics_integrator, t, hist>>

stepInvalid(action) ==
  /\ ~contains(action)
  /\ raise(action, "AssertionError")

stepUnset(action) ==
  /\ contains(action)
  /\ unpack(state) = None_state
  /\ raise(action, "TypeError")

\* the else branch reads theta_dot, a name step never binds
stepStandard(action) ==
  /\ contains(action)
  /\ unpack(state) # None_state
  /\ kinematics_integrator # "euler"
  /\ raise(action, "NameError")

\* the dynamics evaluator and the integrator of one step in "euler" mode
integrate(s, action) ==
  LET costheta == cos(s[3])
      sintheta == sin(s[3])
  IN  LET tmp == temp(force(action), s[4], sintheta)
      IN  LET ta == thetaacc(sintheta, costheta, tmp)
          IN  LET xa == xacc(tmp, ta, costheta)
              IN  euler(s, xa, ta)

stepEuler(action) ==
  /\ contains(action)
  /\ unpack(state) # None_state
  /\ kinematics_integrator = "euler"
  /\ t < MaxSteps
  /\ \E new \in {integrate(unpack(state), action)} :
       \E d \in {done(new)} :
         LET rew == reward(d, steps_beyond_done)
             w   == warns(d, steps_beyond_done)
         IN  /\ state' = new
             /\ steps_beyond_done' = beyond(d, steps_beyond_done)
             /\ ret' = Returned("step", action, rew, d, w)
             /\ hist' = [hist EXCEPT
                           !.dones = @ + (IF d THEN 1 ELSE 0),
                           !.post = @ + (IF hist.dones > 0 THEN 1 ELSE 0),
                           !.notices = @ + (IF w THEN 1 ELSE 0),
                           !.from = None_sbd]
  /\ t' = t + 1
  /\ UNCHANGED kinematics_integrator

step(action) ==
  \/ stepInvalid(action)
  \/ stepUnset(action)
  \/ stepStandard(action)
  \/ stepEuler(action)

Next ==
  \/ \E mode \in Modes : configure(mode)
  \/ reset
  \/ \E action \in Actions : step(action)

Spec == Init /\ [][Next]_vars

---------------------------------------------------------------------------
(* Vocabulary of the properties *)

\* the last call was a step that returned a transition
StepReturned == ret.op = "step" /\ ret.ok

\* a step of the current episode has returned done = true before the last one
AfterTerminal == hist.post > 0

\* x or theta1 strictly outside its interval
OutsideThresholds(s) ==
  \/ s[1] < -x_threshold
  \/ s[1] > x_threshold
  \/ s[3] < -theta_threshold_radians
  \/ s[3] > theta_threshold_radians

InsideAngle(th) == -theta_threshold_radians <= th /\ th <= theta_threshold_radians

ValidAction(a) == a \in {0, 1}

---------------------------------------------------------------------------
(* C1 as stated: every returned reward is 0 or 1, it is 1 on every step up *)
(* to and including the first step that returns done = true, and it is 0   *)
(* on every step after that one.                                           *)
C1_AsStated ==
  StepReturned =>
    /\ ret.reward \in {0, 1}
    /\ ~AfterTerminal => ret.reward = 1
    /\ AfterTerminal => ret.reward = 0

(* C1 amended: every returned reward is 0 or 1, it is 1 on every step up   *)
(* to and including the first step that returns done = true; a later step  *)
(* returns 0 exactly when it returns done = true, and 1 when the state has *)
(* come back inside the thresholds.                                        *)
C1_Reward ==
  StepReturned =>
    /\ ret.reward \in {0, 1}
    /\ ~AfterTerminal => ret.reward = 1
    /\ AfterTerminal => (ret.reward = 0 <=> ret.done)

C1_Witness ==
  /\ StepReturned
  /\ AfterTerminal
  /\ ~ret.done
  /\ ret.reward = 1

---------------------------------------------------------------------------
(* C2 as stated: once a step has returned done = true, every later step of *)
(* the episode returns done = true.                                        *)
C2_AsStated == (StepReturned /\ AfterTerminal) => ret.done

(* C2 amended: once a step has returned done = true, every later step call *)
(* of the episode leaves steps_beyond_done set and never lowers it, and    *)
(* the done it returns is true exactly when x or theta1 is outside its     *)
(* threshold after the integration.                                        *)
C2_Terminated ==
  [][(hist.dones > 0 /\ ret'.op = "step") =>
       /\ steps_beyond_done # None_sbd
       /\ steps_beyond_done' >= steps_beyond_done
       /\ ret'.ok => (ret'.done <=> OutsideThresholds(state'))]_vars

C2_Witness ==
  /\ StepReturned
  /\ AfterTerminal
  /\ ~ret.done
  /\ steps_beyond_done >= 1

---------------------------------------------------------------------------
---------------------------------------------------------------------------
(* C4: a step call with an action other than 0 and 1 fails and leaves the  *)
(* State Vector and steps_beyond_done as they were.                        *)
C4_InvalidAction ==
  [][(ret'.op = "step" /\ ~ValidAction(ret'.action)) =>
       /\ ~ret'.ok
       /\ state' = state
       /\ steps_beyond_done' = steps_beyond_done]_vars

C4_Witness ==
  /\ ret.op = "step"
  /\ ~ret.ok
  /\ ~ValidAction(ret.action)
  /\ steps_beyond_done >= 1

---------------------------------------------------------------------------
(* C5: a step call with a valid action before any reset fails, and the     *)
(* State Vector and steps_beyond_done stay unset.                          *)
C5_BeforeReset ==
  [][(state = None_state /\ ret'.op = "step" /\ ValidAction(ret'.action)) =>
       /\ ~ret'.ok
       /\ state' = None_state
       /\ steps_beyond_done' = None_sbd]_vars

C5_Witness ==
  /\ state = None_state
  /\ ret.op = "step"
  /\ ValidAction(ret.action)
  /\ ~ret.ok
  /\ kinematics_integrator = "euler"

---------------------------------------------------------------------------
---------------------------------------------------------------------------
(* C7 as stated: with the integrator mode other than "euler", a step with  *)
(* a valid action after reset returns a transition.                        *)
C7_AsStated ==
  (/\ kinematics_integrator # "euler"
   /\ state # None_state
   /\ ret.op = "step"
   /\ ValidAction(ret.action)) => ret.ok

---------------------------------------------------------------------------
(* C8 as stated: steps_beyond_done is unset until the first step that      *)
(* returns done = true, which sets it to 0, and after k later steps of the *)
(* episode its value is k.                                                 *)
C8_AsStated ==
  steps_beyond_done = IF hist.dones = 0 THEN None_sbd ELSE hist.post

(* C8 amended: steps_beyond_done is unset until the first step that        *)
(* returns done = true, which sets it to 0; a later step adds 1 when it    *)
(* returns done = true and leaves it alone when it returns done = false,   *)
(* so its value is the number of later steps that returned done = true.    *)
C8_Counter ==
  steps_beyond_done = IF hist.dones = 0 THEN None_sbd ELSE hist.dones - 1

C8_Witness ==
  /\ StepReturned
  /\ hist.dones >= 2
  /\ hist.post > hist.dones - 1
  /\ steps_beyond_done = hist.dones - 1

---------------------------------------------------------------------------
(* C9 as stated: the notice is printed on the first step call made after a *)
(* step has returned done = true and on no other call.                     *)
C9_AsStated ==
  StepReturned => (ret.notice <=> hist.post = 1)

(* C9 amended: the notice is printed on the first step after the terminal  *)
(* step that itself returns done = true, and on no other call: never       *)
(* before or on the terminal step, at most once per episode, and the call  *)
(* that prints it returns.                                                 *)
C9_Notice ==
  /\ hist.notices <= 1
  /\ StepReturned => (ret.notice <=> (ret.done /\ hist.dones = 2))
  /\ ret.notice => (ret.ok /\ AfterTerminal)

C9_Witness ==
  /\ StepReturned
  /\ hist.post = 1
  /\ ~ret.notice
  /\ hist.notices = 0

---------------------------------------------------------------------------
====
